---- MODULE Spec2Model ----
(***************************************************************************)
(* Smart door system: the Recognition Attempt Controller of               *)
(* frontend/src/app/page.tsx (performAutoRecognition, the auto            *)
(* recognition interval effect, startAutoRecognition and                  *)
(* stopAutoRecognition) together with the parts of CameraContext.tsx it   *)
(* reads.                                                                  *)
(*                                                                         *)
(* The component is a React function component.  The callback handed to   *)
(* setInterval is the performAutoRecognition of the render in which the   *)
(* interval effect ran, so every tick of one interval reads the state     *)
(* values of that render (its closure), while the functional updates      *)
(* setAutoRecognition(prev => ...) and the refs act on the current state. *)
(* The model keeps both: the current state and the closure of the live    *)
(* interval.                                                               *)
(*                                                                         *)
(* Time.  The code reads Date.now() only in differences with times it     *)
(* stored earlier (now - lastAttempt, now < cooldownUntil) and in delays  *)
(* (setInterval, setTimeout).  The model measures every stored time from  *)
(* the current instant: Date.now() is 0, a stored time is its offset in   *)
(* ms, and when the clock advances every stored time moves back by the    *)
(* same amount.  Offsets that no comparison of the code can tell apart    *)
(* any more are kept at one value (an expired deadline at 0, an old       *)
(* lastAttempt at -MinIntervalMs).                                        *)
(*                                                                         *)
(* Specifications.  Spec, SpecUnknown and SpecSlow are the controller,    *)
(* with the camera reduced to isStreaming.  SpecStart applies             *)
(* startAutoRecognition to every controller state.  SpecCamera is the     *)
(* device resource manager of contexts/CameraContext.tsx (startStream,    *)
(* stopStream, switchCamera, getCameras) with the auto start effect of    *)
(* page.tsx; SpecCapture applies captureImage to every video element      *)
(* state.                                                                  *)
(* SpecDetection is the face detection interval of page.tsx with passes   *)
(* that take time.  SpecEnrollment is the capture of variations            *)
(* (startMultiVariationCapture, captureNextVariation,                      *)
(* finishMultiVariationCapture) with its uploads in flight;                *)
(* SpecStartSession applies startMultiVariationCapture to every state an   *)
(* earlier capture can leave.                                              *)
(* SpecController is the door controller of the Arduino sketch (loop,     *)
(* connectToWiFi, checkDoorCommand, openDoor, closeDoor);                 *)
(* SpecControllerFair adds that loop() is called again and again.         *)
(***************************************************************************)
EXTENDS Integers, FiniteSets, Sequences, Bags, TLC

\* ---------------------------------------------------------------- bounds
\* A recognition request is answered at most this long after it was issued (ms).
MaxLatency == 1000
\* The same, where the recognition service is slow or unreachable (SpecSlow).
SlowLatency == 3000
\* attemptCount is not counted beyond this value.
MaxCount == 11

\* ------------------------------------------------------- program constants
\* cooldownUntil: number | null -- the null of the source.
Null == -1
\* const now = Date.now(): the current instant is the origin of the clock.
now == 0
\* setInterval(performAutoRecognition, 1000)
TickMs == 1000
\* now - autoRecognition.lastAttempt < 2000
MinIntervalMs == 2000
\* cooldownUntil: now + 30000
CooldownMs == 30000
\* setTimeout(() => { setDoorStatus("locked"); setRecognitionStatus("idle") }, 5000)
SettleMs == 5000
\* setTimeout(() => setRecognitionStatus("idle"), 1000)
DisplayMs == 1000
\* maxAttempts: 10
MaxAttempts == 10

VARIABLES
  isStreaming,                \* CameraContext: isStreaming
  modelsLoaded,               \* CameraContext: modelsLoaded
  detectedFaces,              \* detectedFaces.length
  recognitionStatus,          \* "idle" | "scanning" | "recognized" | "unknown"
  doorStatus,                 \* "locked" | "unlocked"
  autoRecognition,            \* AutoRecognitionState
  autoRecognitionIntervalRef, \* the live interval: its closure and next due time
  pending,                    \* outstanding recognizeFace calls, by the `now` of their tick
  timers,                     \* pending setTimeout callbacks (a bag)
  lastOp,                     \* history: the operation that produced this state
  cameras,                    \* CameraContext: cameras (the device ids listed)
  selectedCamera,             \* CameraContext: selectedCamera
  cameraError,                \* CameraContext: cameraError
  autoStartCamera,            \* page.tsx: autoStartCamera
  streamRef,                  \* CameraContext: streamRef.current
  tracks,                     \* the streams whose tracks have not been stopped
  video,                      \* videoRef.current: srcObject, metadata still to load
  acquiring,                  \* getUserMedia calls not yet settled (a bag of device ids)
  cameraTimers,               \* pending setTimeout callbacks of CameraContext (a bag)
  cameraSupport,              \* what checkCameraSupport finds in this browser
  frameSource,                \* videoRef.current as captureImage reads it
  captured,                   \* what the last captureImage() returned
  detectionIntervalRef,       \* page.tsx: detectionIntervalRef.current (an interval id, 0 = null)
  detectionTimers,            \* the detection intervals that are live: id and next due time
  detecting,                  \* detection passes in flight (a bag of ms still to run)
  isCapturingVariations,      \* page.tsx: isCapturingVariations
  currentVariationIndex,      \* page.tsx: currentVariationIndex
  capturedVariations,         \* page.tsx: capturedVariations
  personNameForVariations,    \* page.tsx: personNameForVariations
  uploads,                    \* addFaceVariation calls of captureNextVariation in flight (a bag)
  finishing,                  \* finishMultiVariationCapture calls awaiting fetchFaces
  adding,                     \* handleAddFaceVariation calls in flight (a bag of names)
  overlaps,                   \* history: captures started while another was in flight
  accessPoint,                \* the WiFi network of the sketch is in reach
  wifiStatus,                 \* sketch: WiFi.status()
  doorIsOpen,                 \* sketch: doorIsOpen
  doorOpenedAt,               \* sketch: doorOpenedAt
  lastCheck,                  \* sketch: lastCheck
  lastBlink,                  \* sketch: loop's static lastBlink
  RELAY_PIN,                  \* the level of the relay pin
  DOOR_LED_PIN,               \* the level of the door LED pin (inverted: LOW is on)
  STATUS_LED_PIN              \* the level of the status LED pin

cameraVars == <<cameras, selectedCamera, cameraError, autoStartCamera, streamRef,
                tracks, video, acquiring, cameraTimers, cameraSupport, frameSource,
                captured>>

detectionVars == <<detectionIntervalRef, detectionTimers, detecting>>

enrollmentVars == <<isCapturingVariations, currentVariationIndex,
                    capturedVariations, personNameForVariations, uploads,
                    finishing, adding, overlaps>>

controllerVars == <<accessPoint, wifiStatus, doorIsOpen, doorOpenedAt, lastCheck,
                    lastBlink, RELAY_PIN, DOOR_LED_PIN, STATUS_LED_PIN>>

pageVars == <<detectionVars, enrollmentVars, controllerVars>>

vars == <<isStreaming, modelsLoaded, detectedFaces, recognitionStatus,
          doorStatus, autoRecognition, autoRecognitionIntervalRef, pending,
          timers, lastOp, cameraVars, pageVars>>

NoInterval == [live |-> FALSE]

\* useState<AutoRecognitionState>({...}) of the first render.  lastAttempt: 0
\* is the epoch, further back than any comparison reaches.
InitialAutoRecognition ==
  [isActive |-> FALSE, attemptCount |-> 0, maxAttempts |-> MaxAttempts,
   cooldownUntil |-> Null, lastAttempt |-> -MinIntervalMs]

\* The values of one render that performAutoRecognition closes over.
Closure(streaming, faces, status, auto) ==
  [isStreaming |-> streaming, detectedFaces |-> faces,
   recognitionStatus |-> status, autoRecognition |-> auto]

\* ------------------------------------------------- CameraContext: values
\* useState<string>(""): no camera selected; "" is also "no error".
NoCamera == ""
NoError == ""

\* streamRef.current = null / srcObject = null.  A MediaStream is known by its
\* id, 1 and up.
NoStream == 0

\* The video element with no source.
NoVideo == [srcObject |-> NoStream, loading |-> FALSE]

\* The video element as captureImage finds it when it was never given a frame.
NoFrame ==
  [hasVideo |-> FALSE, paused |-> TRUE, ended |-> FALSE, readyState |-> 0,
   videoWidth |-> 0, videoHeight |-> 0, hasContext |-> TRUE, throws |-> FALSE]

\* The camera state of the first render, in a browser with the given support.
InitCameraIn(support) ==
  /\ cameras = {}
  /\ selectedCamera = NoCamera
  /\ cameraError = NoError
  /\ autoStartCamera = TRUE
  /\ streamRef = NoStream
  /\ tracks = {}
  /\ video = NoVideo
  /\ acquiring = EmptyBag
  /\ cameraTimers = EmptyBag
  /\ cameraSupport \in support
  /\ frameSource = NoFrame
  /\ captured = "none"

InitCamera == InitCameraIn({"supported"})

\* detectionIntervalRef = useRef(null): no detection interval, no pass running.
NoDetectionInterval == 0

InitDetection ==
  /\ detectionIntervalRef = NoDetectionInterval
  /\ detectionTimers = {}
  /\ detecting = EmptyBag

\* useState(false), useState(0), useState([]), useState(""): no capture of
\* variations is going on, and no call is in flight.
InitEnrollment ==
  /\ isCapturingVariations = FALSE
  /\ currentVariationIndex = 0
  /\ capturedVariations = << >>
  /\ personNameForVariations = ""
  /\ uploads = EmptyBag
  /\ finishing = 0
  /\ adding = EmptyBag
  /\ overlaps = 0

\* -------------------------------------------- door controller: constants
\* const unsigned long checkInterval = 2000
checkInterval == 2000
\* const unsigned long doorOpenDuration = 5000
doorOpenDuration == 5000
\* loop: if (millis() - lastBlink >= 1000)
BlinkMs == 1000
\* loop: delay(100)
DelayMs == 100
\* connectToWiFi: while (... && attempts < 20) { delay(500); attempts++ }
ConnectStepMs == 500
ConnectAttemptsLimit == 20

\* The attempts connectToWiFi needs when the network is in reach.
FewAttempts == 1
ConnectAttempts == {FewAttempts, ConnectAttemptsLimit}

\* A time the sketch stored, ms later: millis() is 0 and the stored time moves
\* back; beyond span no comparison of the sketch tells the values apart.
Earlier(t, ms, span) == IF t - ms < -span THEN -span ELSE t - ms

\* The state after setup(): the pins written, connectToWiFi() done after
\* attempts waits (connected or given up), the times still at 0 = boot.
InitControllerIn(points, attemptSet) ==
  /\ accessPoint \in points
  /\ \E attempts \in attemptSet :
       /\ accessPoint = "down" => attempts = ConnectAttemptsLimit
       /\ doorOpenedAt = Earlier(0, attempts * ConnectStepMs, doorOpenDuration)
       /\ lastCheck = Earlier(0, attempts * ConnectStepMs, checkInterval)
       /\ lastBlink = Earlier(0, attempts * ConnectStepMs, BlinkMs)
  /\ wifiStatus = IF accessPoint = "up" THEN "WL_CONNECTED" ELSE "WL_DISCONNECTED"
  /\ doorIsOpen = FALSE
  /\ RELAY_PIN = "LOW"
  /\ DOOR_LED_PIN = "HIGH"
  /\ STATUS_LED_PIN = "LOW"

InitController == InitControllerIn({"up"}, {FewAttempts})

\* The state of the first render of page.tsx outside the recognition
\* controller, and the door controller after setup().
InitPage == InitDetection /\ InitEnrollment /\ InitController

Init ==
  /\ isStreaming = FALSE
  /\ modelsLoaded = FALSE
  /\ detectedFaces = 0
  /\ recognitionStatus = "idle"
  /\ doorStatus = "locked"
  /\ autoRecognition = InitialAutoRecognition
  /\ autoRecognitionIntervalRef = NoInterval
  /\ pending = {}
  /\ timers = EmptyBag
  /\ lastOp = "init"
  /\ InitCamera
  /\ InitPage

\* ------------------------------------------------------------ pure parts

\* Mutant of startAutoRecognitionUpdate: cooldownUntil: null is left out.
startAutoRecognitionKeepsCooldown(prev) ==
  [prev EXCEPT !.isActive = TRUE, !.attemptCount = 0]

\* startAutoRecognition: setAutoRecognition(prev => ({...prev, isActive: true,
\* attemptCount: 0, cooldownUntil: null}))
startAutoRecognitionUpdate(prev) ==
  [prev EXCEPT !.isActive = TRUE, !.attemptCount = 0, !.cooldownUntil = Null]

\* Mutant of stopAutoRecognitionUpdate: isActive: false is left out.
stopAutoRecognitionKeepsActive(prev) ==
  [prev EXCEPT !.attemptCount = 0, !.cooldownUntil = Null]

\* stopAutoRecognition: setAutoRecognition(prev => ({...prev, isActive: false,
\* attemptCount: 0, cooldownUntil: null}))
stopAutoRecognitionUpdate(prev) ==
  [prev EXCEPT !.isActive = FALSE, !.attemptCount = 0, !.cooldownUntil = Null]

\* Mutant of armCooldownUpdate: attemptCount: 0 is left out.
armCooldownKeepsCount(prev, t) ==
  [prev EXCEPT !.cooldownUntil = t + CooldownMs]

\* performAutoRecognition, max attempts branch:
\* setAutoRecognition(prev => ({...prev, cooldownUntil: now + 30000, attemptCount: 0}))
armCooldownUpdate(prev, t) ==
  [prev EXCEPT !.cooldownUntil = t + CooldownMs, !.attemptCount = 0]

\* performAutoRecognition after the await:
\* setAutoRecognition(prev => ({...prev, attemptCount: prev.attemptCount + 1, lastAttempt: now}))
countAttemptUpdate(prev, t) ==
  [prev EXCEPT !.attemptCount = @ + 1, !.lastAttempt = t]

\* Mutant of performAutoRecognitionBranch: the cooldown check is left out.
performAutoRecognitionNoCooldownCheck(c, t, frame) ==
  IF \/ ~c.isStreaming
     \/ c.detectedFaces = 0
     \/ c.recognitionStatus = "scanning"
  THEN "early_return"
  ELSE IF c.autoRecognition.attemptCount >= c.autoRecognition.maxAttempts
  THEN "max_attempts"
  ELSE IF t - c.autoRecognition.lastAttempt < MinIntervalMs
  THEN "too_soon"
  ELSE IF ~frame
  THEN "no_image"
  ELSE "request"

\* performAutoRecognition up to the await, on the closure c of the render that
\* created the interval, at Date.now() = t; frame says whether captureImage()
\* returned an image.  The result names the branch taken.
performAutoRecognitionBranch(c, t, frame) ==
  IF \/ ~c.isStreaming
     \/ c.detectedFaces = 0
     \/ c.recognitionStatus = "scanning"
  THEN "early_return"
  ELSE IF c.autoRecognition.cooldownUntil # Null /\ t < c.autoRecognition.cooldownUntil
  THEN "cooldown"
  ELSE IF c.autoRecognition.attemptCount >= c.autoRecognition.maxAttempts
  THEN "max_attempts"
  ELSE IF t - c.autoRecognition.lastAttempt < MinIntervalMs
  THEN "too_soon"
  ELSE IF ~frame
  THEN "no_image"
  ELSE "request"

\* Mutant of responseTimers: the return after a recognition is not scheduled.
responseTimersNoSettle(kind, t) ==
  IF kind = "unknown" THEN SetToBag({[kind |-> "display", due |-> t + DisplayMs]})
  ELSE EmptyBag

\* The timers a handled response leaves behind, at Date.now() = t:
\* recognized -> setTimeout(..., 5000); recognized = false -> setTimeout(..., 1000).
responseTimers(kind, t) ==
  IF kind = "recognized" THEN SetToBag({[kind |-> "settle", due |-> t + SettleMs]})
  ELSE IF kind = "unknown" THEN SetToBag({[kind |-> "display", due |-> t + DisplayMs]})
  ELSE EmptyBag

\* The recognition status a handled response sets (prev: the current status).
\* success = false or no result: none of the branches runs, the status stays.
\* a throw of makeRequest: the catch sets "idle".
responseStatus(kind, prev) ==
  CASE kind = "recognized" -> "recognized"
    [] kind = "unknown"    -> "unknown"
    [] kind = "nosuccess"  -> prev
    [] kind = "error"      -> "idle"

\* Mutant of responseDoorStatus: a recognized = false response unlocks too.
responseDoorStatusUnlocksUnknown(kind, prev) ==
  IF kind \in {"recognized", "unknown"} THEN "unlocked" ELSE prev

\* The door status a handled response sets (prev: the current status):
\* setDoorStatus("unlocked") in the recognized branch only.
responseDoorStatus(kind, prev) ==
  IF kind = "recognized" THEN "unlocked" ELSE prev

\* The auto recognition state a handled response sets.
responseAutoRecognition(kind, prev, t) ==
  CASE kind = "recognized" -> stopAutoRecognitionUpdate(countAttemptUpdate(prev, t))
    [] kind = "unknown"    -> countAttemptUpdate(prev, t)
    [] kind = "nosuccess"  -> countAttemptUpdate(prev, t)
    [] kind = "error"      -> prev

\* Mutant of intervalEffect: the effect does not test autoRecognition.isActive.
intervalEffectIgnoresIsActive(ref, auto2, streaming2, loaded2, faces2, status2) ==
  IF <<auto2.isActive, streaming2, loaded2>>
       = <<autoRecognition.isActive, isStreaming, modelsLoaded>>
  THEN ref
  ELSE IF streaming2 /\ loaded2
  THEN [live |-> TRUE, due |-> now + TickMs,
        closure |-> Closure(streaming2, faces2, status2, auto2)]
  ELSE NoInterval

\* The auto recognition interval effect, deps [autoRecognition.isActive,
\* isStreaming, modelsLoaded]: it runs when a dep changed, its cleanup clears the
\* old interval, and it sets a new one with the closure of the new render.
\* ref: the interval left by the handler itself (stopAutoRecognition clears it).
intervalEffect(ref, auto2, streaming2, loaded2, faces2, status2) ==
  IF <<auto2.isActive, streaming2, loaded2>>
       = <<autoRecognition.isActive, isStreaming, modelsLoaded>>
  THEN ref
  ELSE IF auto2.isActive /\ streaming2 /\ loaded2
  THEN [live |-> TRUE, due |-> now + TickMs,
        closure |-> Closure(streaming2, faces2, status2, auto2)]
  ELSE NoInterval

\* One render commit: the new state values and the effect that follows them.
Commit(ref, auto2, streaming2, loaded2, faces2, status2) ==
  /\ autoRecognition' = auto2
  /\ isStreaming' = streaming2
  /\ modelsLoaded' = loaded2
  /\ detectedFaces' = faces2
  /\ recognitionStatus' = status2
  /\ autoRecognitionIntervalRef' =
       intervalEffect(ref, auto2, streaming2, loaded2, faces2, status2)

\* What apiService.recognizeFace can come back with: result.recognized true,
\* result.recognized false, success false or no result, or a throw of
\* makeRequest (fetch failure, HTTP error, unparsable body).
ResponseKinds == {"recognized", "unknown", "nosuccess", "error"}

\* ---------------------------------------------------------------- actions

\* loadModels: setModelsLoaded(true)
LoadModels ==
  /\ ~modelsLoaded
  /\ Commit(autoRecognitionIntervalRef, autoRecognition, isStreaming, TRUE,
            detectedFaces, recognitionStatus)
  /\ lastOp' = "loadModels"
  /\ UNCHANGED <<doorStatus, pending, timers>>
  /\ UNCHANGED <<cameraVars, pageVars>>

\* startStream, once the video plays: setIsStreaming(true)
StartStream ==
  /\ ~isStreaming
  /\ Commit(autoRecognitionIntervalRef, autoRecognition, TRUE, modelsLoaded,
            detectedFaces, recognitionStatus)
  /\ lastOp' = "startStream"
  /\ UNCHANGED <<doorStatus, pending, timers>>
  /\ UNCHANGED <<cameraVars, pageVars>>

\* stopStream: setIsStreaming(false)
StopStream ==
  /\ isStreaming
  /\ Commit(autoRecognitionIntervalRef, autoRecognition, FALSE, modelsLoaded,
            detectedFaces, recognitionStatus)
  /\ lastOp' = "stopStream"
  /\ UNCHANGED <<doorStatus, pending, timers>>
  /\ UNCHANGED <<cameraVars, pageVars>>

\* detectFaces: one detection pass, setDetectedFaces(...)
DetectFaces ==
  /\ isStreaming /\ modelsLoaded
  /\ Commit(autoRecognitionIntervalRef, autoRecognition, isStreaming, modelsLoaded,
            1 - detectedFaces, recognitionStatus)
  /\ lastOp' = "detectFaces"
  /\ UNCHANGED <<doorStatus, pending, timers>>
  /\ UNCHANGED <<cameraVars, pageVars>>

\* The buttons that call startAutoRecognition: the toggle (enabled while
\* streaming with the models loaded, starts when inactive) and "Nhan dien lai"
\* (enabled while streaming and inactive).
StartAutoRecognition ==
  /\ isStreaming /\ ~autoRecognition.isActive
  /\ Commit(autoRecognitionIntervalRef, startAutoRecognitionUpdate(autoRecognition),
            isStreaming, modelsLoaded, detectedFaces, recognitionStatus)
  /\ lastOp' = "startAutoRecognition"
  /\ UNCHANGED <<doorStatus, pending, timers>>
  /\ UNCHANGED <<cameraVars, pageVars>>

\* The toggle button while active: stopAutoRecognition, which also clears the
\* interval held by autoRecognitionIntervalRef.
StopAutoRecognition ==
  /\ isStreaming /\ modelsLoaded /\ autoRecognition.isActive
  /\ Commit(NoInterval, stopAutoRecognitionUpdate(autoRecognition),
            isStreaming, modelsLoaded, detectedFaces, recognitionStatus)
  /\ lastOp' = "stopAutoRecognition"
  /\ UNCHANGED <<doorStatus, pending, timers>>
  /\ UNCHANGED <<cameraVars, pageVars>>

\* One tick of the interval: performAutoRecognition up to its await.
Tick ==
  /\ autoRecognitionIntervalRef.live
  /\ autoRecognitionIntervalRef.due <= now
  /\ \E frame \in BOOLEAN :
       LET c == autoRecognitionIntervalRef.closure
           branch == performAutoRecognitionBranch(c, now, frame)
           ref2 == [autoRecognitionIntervalRef EXCEPT !.due = @ + TickMs]
       IN /\ Commit(ref2,
                    IF branch = "max_attempts"
                      THEN armCooldownUpdate(autoRecognition, now)
                      ELSE autoRecognition,
                    isStreaming, modelsLoaded, detectedFaces,
                    CASE branch = "request"  -> "scanning"
                      [] branch = "no_image" -> "idle"
                      [] OTHER               -> recognitionStatus)
          /\ pending' = IF branch = "request" THEN pending \cup {now} ELSE pending
          /\ lastOp' = branch
  /\ UNCHANGED <<doorStatus, timers>>
  /\ UNCHANGED <<cameraVars, pageVars>>

\* The answer to the request issued at t: performAutoRecognition after its await.
\* kinds: the answers the recognition service gives.
Respond(kinds) ==
  \E t \in pending, kind \in kinds :
    /\ kind # "error" => autoRecognition.attemptCount < MaxCount  \* counter cap
    /\ pending' = pending \ {t}
    /\ Commit(IF kind = "recognized" THEN NoInterval ELSE autoRecognitionIntervalRef,
              responseAutoRecognition(kind, autoRecognition, t),
              isStreaming, modelsLoaded, detectedFaces,
              responseStatus(kind, recognitionStatus))
    /\ doorStatus' = responseDoorStatus(kind, doorStatus)
    /\ timers' = timers (+) responseTimers(kind, now)
    /\ lastOp' = kind
    /\ UNCHANGED <<cameraVars, pageVars>>

Response == Respond(ResponseKinds)

\* A setTimeout callback that is due.
Timeout ==
  \E tm \in BagToSet(timers) :
    /\ tm.due <= now
    /\ timers' = timers (-) SetToBag({tm})
    /\ doorStatus' = IF tm.kind = "settle" THEN "locked" ELSE doorStatus
    /\ Commit(autoRecognitionIntervalRef, autoRecognition, isStreaming, modelsLoaded,
              detectedFaces, "idle")
    /\ lastOp' = tm.kind
    /\ UNCHANGED pending
    /\ UNCHANGED <<cameraVars, pageVars>>

\* A stored time t after the clock advanced by d, kept at floor once it is
\* that far back.
Shift(t, d, floor) ==
  IF t = Null THEN Null ELSE IF t - d < floor THEN floor ELSE t - d

ShiftAutoRecognition(a, d) ==
  [a EXCEPT !.cooldownUntil = Shift(@, d, 0),
            !.lastAttempt = Shift(@, d, -MinIntervalMs)]

ShiftInterval(ref, d) ==
  IF ref.live
  THEN [ref EXCEPT !.due = @ - d,
                   !.closure.autoRecognition = ShiftAutoRecognition(@, d)]
  ELSE ref

ShiftTimers(b, d) ==
  LET old == BagToSet(b)
      new == {[kind |-> tm.kind, due |-> tm.due - d] : tm \in old}
  IN [tm \in new |-> b[[kind |-> tm.kind, due |-> tm.due + d]]]

\* The clock advances by one scheduling period once everything due has run;
\* latency: how long the recognition service may take to answer.
Elapse(latency) ==
  /\ ~(autoRecognitionIntervalRef.live /\ autoRecognitionIntervalRef.due <= now)
  /\ \A tm \in BagToSet(timers) : tm.due > now
  /\ \A t \in pending : now + TickMs - t <= latency
  /\ autoRecognition' = ShiftAutoRecognition(autoRecognition, TickMs)
  /\ autoRecognitionIntervalRef' = ShiftInterval(autoRecognitionIntervalRef, TickMs)
  /\ pending' = {t - TickMs : t \in pending}
  /\ timers' = ShiftTimers(timers, TickMs)
  /\ lastOp' = "advance"
  /\ UNCHANGED <<isStreaming, modelsLoaded, detectedFaces, recognitionStatus,
                 doorStatus>>
  /\ UNCHANGED <<cameraVars, pageVars>>

Advance == Elapse(MaxLatency)

Next ==
  \/ LoadModels
  \/ StartStream
  \/ StopStream
  \/ DetectFaces
  \/ StartAutoRecognition
  \/ StopAutoRecognition
  \/ Tick
  \/ Response
  \/ Timeout
  \/ Advance

Spec == Init /\ [][Next]_vars

\* The recognition service answers every request with recognized = false.
ResponseUnknown == Respond({"unknown"})

NextUnknown ==
  \/ LoadModels
  \/ StartStream
  \/ StopStream
  \/ DetectFaces
  \/ StartAutoRecognition
  \/ StopAutoRecognition
  \/ Tick
  \/ ResponseUnknown
  \/ Timeout
  \/ Advance

SpecUnknown == Init /\ [][NextUnknown]_vars

\* The same with what the browser and the service guarantee: the interval
\* fires every period, time passes, every request is answered and every
\* timer runs.  Nothing is assumed of the user's actions.
SpecUnknownFair ==
  /\ SpecUnknown
  /\ WF_vars(Tick)
  /\ WF_vars(ResponseUnknown)
  /\ WF_vars(Timeout)
  /\ WF_vars(Advance)

\* The recognition service is slow or unreachable: a request is answered late,
\* by a transport failure.
ResponseError == Respond({"error"})

AdvanceSlow == Elapse(SlowLatency)

NextSlow ==
  \/ LoadModels
  \/ StartStream
  \/ StopStream
  \/ DetectFaces
  \/ StartAutoRecognition
  \/ StopAutoRecognition
  \/ Tick
  \/ ResponseError
  \/ AdvanceSlow

SpecSlow == Init /\ [][NextSlow]_vars

\* startAutoRecognition as a function of the state it is called in.  The
\* values an AutoRecognitionState takes in the model: any attemptCount up to
\* the cap, no cooldown or a deadline up to CooldownMs ahead, a last attempt
\* up to MinIntervalMs back.
AutoRecognitionStates ==
  [isActive : BOOLEAN,
   attemptCount : 0..MaxCount,
   maxAttempts : {MaxAttempts},
   cooldownUntil : {Null} \cup {k * TickMs : k \in 0..(CooldownMs \div TickMs)},
   lastAttempt : {-k * TickMs : k \in 0..(MinIntervalMs \div TickMs)}]

InitStart ==
  /\ isStreaming \in BOOLEAN
  /\ modelsLoaded = FALSE
  /\ detectedFaces = 0
  /\ recognitionStatus = "idle"
  /\ doorStatus = "locked"
  /\ autoRecognition \in AutoRecognitionStates
  /\ autoRecognitionIntervalRef = NoInterval
  /\ pending = {}
  /\ timers = EmptyBag
  /\ lastOp = "init"
  /\ InitCamera
  /\ InitPage

\* startAutoRecognition() called in any state.
StartAutoRecognitionCall ==
  /\ Commit(autoRecognitionIntervalRef, startAutoRecognitionUpdate(autoRecognition),
            isStreaming, modelsLoaded, detectedFaces, recognitionStatus)
  /\ lastOp' = "startAutoRecognition"
  /\ UNCHANGED <<doorStatus, pending, timers>>
  /\ UNCHANGED <<cameraVars, pageVars>>

SpecStart == InitStart /\ [][StartAutoRecognitionCall]_vars

\* ---------------------------------------------------------- CameraContext
\* The device resource manager of contexts/CameraContext.tsx with the effect
\* of page.tsx that starts the camera by itself.  The recognition controller
\* stays as constructed (inactive) in this part.  Time is kept as above: a
\* timer holds the ms left until it is due.

\* getUserMedia calls in progress at once, MediaStream ids, pending timers.
MaxCalls == 2
MaxStreams == 2
MaxCameraTimers == 1

\* The video input devices enumerateDevices lists; videoDevices[0] is the first.
Devices == {"camA", "camB"}
FirstDevice == "camA"

\* setTimeout(() => { setIsStreaming(true) ... }, 500)
StabilizeMs == 500
\* switchCamera: setTimeout(() => { startStream() }, 500)
ReleaseMs == 500

\* checkCameraSupport: the API is there and the page is served over https or
\* from localhost; otherwise it sets one of two messages and returns false.
Support == {"supported", "no_api", "insecure"}

supportError(support) ==
  IF support = "no_api" THEN "browser does not support the camera API"
  ELSE "camera API needs HTTPS or localhost"

\* The names getUserMedia rejects with, and the message startStream's catch
\* sets for each.
ErrorNames ==
  {"NotAllowedError", "NotFoundError", "NotReadableError", "OverconstrainedError",
   "AbortError"}

cameraErrorMessage(name) ==
  CASE name = "NotAllowedError"      -> "camera permission denied"
    [] name = "NotFoundError"        -> "camera not found"
    [] name = "NotReadableError"     -> "camera in use by another application"
    [] name = "OverconstrainedError" -> "camera does not support the settings"
    [] OTHER                         -> "cannot access camera"

\* The state CameraContext and the auto start effect work on, as one record.
Cam ==
  [isStreaming |-> isStreaming, modelsLoaded |-> modelsLoaded, cameras |-> cameras,
   selectedCamera |-> selectedCamera, cameraError |-> cameraError,
   autoStartCamera |-> autoStartCamera, streamRef |-> streamRef, tracks |-> tracks,
   video |-> video, acquiring |-> acquiring, cameraTimers |-> cameraTimers]

\* startStream up to its await, called from a render whose selectedCamera is
\* device: the support check, setCameraError(""), the tracks of the current
\* stream stopped (streamRef keeps the stream), getUserMedia called.
startStream(c, device) ==
  IF cameraSupport # "supported"
  THEN [c EXCEPT !.cameraError = supportError(cameraSupport)]
  ELSE [c EXCEPT !.cameraError = NoError,
                 !.tracks = @ \ {c.streamRef},
                 !.acquiring = @ (+) SetToBag({device})]

\* stopStream: the tracks of the current stream stopped, streamRef and
\* srcObject null, setIsStreaming(false), setCameraError("").
stopStream(c) ==
  [c EXCEPT !.tracks = @ \ {c.streamRef},
            !.streamRef = NoStream,
            !.video = NoVideo,
            !.isStreaming = FALSE,
            !.cameraError = NoError]

\* The effect without isStreaming among its dependencies: it does not run
\* again when a stream stops.
autoStartEffectOnMountOnly(c) ==
  IF /\ <<c.modelsLoaded, c.cameras, c.autoStartCamera, c.selectedCamera>>
          # <<modelsLoaded, cameras, autoStartCamera, selectedCamera>>
     /\ c.modelsLoaded
     /\ c.cameras # {}
     /\ c.autoStartCamera
     /\ ~c.isStreaming
  THEN startStream(c, c.selectedCamera)
  ELSE c

\* page.tsx, "Auto-start camera" effect, deps [isClient, modelsLoaded,
\* cameras.length, autoStartCamera, isStreaming, startStream]; startStream is a
\* new function whenever selectedCamera changed.  c: the state of the new render.
autoStartEffect(c) ==
  IF /\ <<c.modelsLoaded, c.cameras, c.autoStartCamera, c.isStreaming, c.selectedCamera>>
          # <<modelsLoaded, cameras, autoStartCamera, isStreaming, selectedCamera>>
     /\ c.modelsLoaded
     /\ c.cameras # {}
     /\ c.autoStartCamera
     /\ ~c.isStreaming
  THEN startStream(c, c.selectedCamera)
  ELSE c

\* One render commit of the camera state and the effect that follows it.
CameraCommit(c) ==
  LET d == autoStartEffect(c)
  IN /\ BagCardinality(d.acquiring) <= MaxCalls
     /\ BagCardinality(d.cameraTimers) <= MaxCameraTimers
     /\ isStreaming' = d.isStreaming
     /\ modelsLoaded' = d.modelsLoaded
     /\ cameras' = d.cameras
     /\ selectedCamera' = d.selectedCamera
     /\ cameraError' = d.cameraError
     /\ autoStartCamera' = d.autoStartCamera
     /\ streamRef' = d.streamRef
     /\ tracks' = d.tracks
     /\ video' = d.video
     /\ acquiring' = d.acquiring
     /\ cameraTimers' = d.cameraTimers
     /\ UNCHANGED <<detectedFaces, recognitionStatus, doorStatus, autoRecognition,
                    autoRecognitionIntervalRef, pending, timers, cameraSupport,
                    frameSource, captured>>
     /\ UNCHANGED pageVars

CameraTimer(kind, due, device, id) ==
  [kind |-> kind, due |-> due, device |-> device, id |-> id]

\* loadModels: setModelsLoaded(true)
CameraLoadModels ==
  /\ ~modelsLoaded
  /\ CameraCommit([Cam EXCEPT !.modelsLoaded = TRUE])
  /\ lastOp' = "loadModels"

\* getCameras (on mount, whenever selectedCamera changed, and the refresh
\* button), taken at its end: the support check failed, the permission probe
\* was rejected, no video input was listed, or the devices were listed.
CameraGetCameras ==
  \E outcome \in {"listed", "denied", "none"} :
    /\ CameraCommit(
         IF cameraSupport # "supported"
         THEN [Cam EXCEPT !.cameraError = supportError(cameraSupport)]
         ELSE IF outcome = "denied"
         THEN [Cam EXCEPT !.cameraError = "no permission to access the camera"]
         ELSE IF outcome = "none"
         THEN [Cam EXCEPT !.cameraError = "no camera found"]
         ELSE [Cam EXCEPT !.cameras = Devices,
                          !.selectedCamera = IF @ = NoCamera THEN FirstDevice ELSE @,
                          !.cameraError = NoError])
    /\ lastOp' = "getCameras"

\* The "auto start" checkbox.
ToggleAutoStartCamera ==
  /\ CameraCommit([Cam EXCEPT !.autoStartCamera = ~@])
  /\ lastOp' = "setAutoStartCamera"

\* The stream button while not streaming (disabled with no camera listed and
\* no error shown): startStream().
CameraStartStream ==
  /\ ~isStreaming
  /\ ~(cameras = {} /\ cameraError = NoError)
  /\ CameraCommit(startStream(Cam, selectedCamera))
  /\ lastOp' = "startStream"

\* The stream button while streaming: stopStream().
CameraStopStream ==
  /\ isStreaming
  /\ CameraCommit(stopStream(Cam))
  /\ lastOp' = "stopStream"

\* switchCamera(id), from the camera select: setSelectedCamera(id) and, when
\* streaming, stopStream() and the delayed startStream() -- the startStream of
\* the render switchCamera was created in, with that render's selectedCamera.
SwitchCamera ==
  \E id \in cameras \ {selectedCamera} :
    /\ CameraCommit(
         IF isStreaming
         THEN [stopStream(Cam) EXCEPT
                 !.selectedCamera = id,
                 !.cameraTimers =
                    @ (+) SetToBag({CameraTimer("restart", ReleaseMs, selectedCamera, id)})]
         ELSE [Cam EXCEPT !.selectedCamera = id])
    /\ lastOp' = "switchCamera"

\* The smallest stream id not in use.
FreshStreamId ==
  LET used == tracks \cup {streamRef, video.srcObject}
  IN IF (1..MaxStreams) \ used = {} THEN NoStream
     ELSE CHOOSE i \in (1..MaxStreams) \ used : \A j \in (1..MaxStreams) \ used : i <= j

\* getUserMedia resolves for a call that asked for device: streamRef.current =
\* stream, srcObject = stream, onloadedmetadata set.
Acquired ==
  \E device \in BagToSet(acquiring) :
    LET stream == FreshStreamId
    IN /\ stream # NoStream
       /\ CameraCommit([Cam EXCEPT
            !.acquiring = @ (-) SetToBag({device}),
            !.streamRef = stream,
            !.tracks = @ \cup {stream},
            !.video = [srcObject |-> stream, loading |-> TRUE]])
       /\ lastOp' = "acquired"

\* getUserMedia rejects: the catch of startStream sets the classified message.
AcquireFailed ==
  \E device \in BagToSet(acquiring), name \in ErrorNames :
    /\ CameraCommit([Cam EXCEPT
         !.acquiring = @ (-) SetToBag({device}),
         !.cameraError = cameraErrorMessage(name)])
    /\ lastOp' = "startStreamFailed"

\* onloadedmetadata of the current source and play() resolved: the delayed
\* setIsStreaming(true) is scheduled.
VideoPlays ==
  /\ video.loading
  /\ video.srcObject \in tracks
  /\ CameraCommit([Cam EXCEPT
       !.video.loading = FALSE,
       !.cameraTimers =
          @ (+) SetToBag({CameraTimer("stabilize", StabilizeMs, NoCamera, NoCamera)})])
  /\ lastOp' = "play"

\* play() rejected: setCameraError(...)
PlayFailed ==
  /\ video.loading
  /\ CameraCommit([Cam EXCEPT !.video.loading = FALSE,
                              !.cameraError = "cannot play the camera video"])
  /\ lastOp' = "playFailed"

\* The delayed callback of startStream: setIsStreaming(true)
StabilizeTimeout ==
  \E tm \in BagToSet(cameraTimers) :
    /\ tm.kind = "stabilize" /\ tm.due <= now
    /\ CameraCommit([Cam EXCEPT !.cameraTimers = @ (-) SetToBag({tm}),
                                !.isStreaming = TRUE])
    /\ lastOp' = "setIsStreaming"

\* The delayed callback of switchCamera: startStream() of the old render.
RestartTimeout ==
  \E tm \in BagToSet(cameraTimers) :
    /\ tm.kind = "restart" /\ tm.due <= now
    /\ CameraCommit(startStream([Cam EXCEPT !.cameraTimers = @ (-) SetToBag({tm})],
                                tm.device))
    /\ lastOp' = "switchStart"

ShiftCameraTimers(b, d) ==
  LET old == BagToSet(b)
      new == {[tm EXCEPT !.due = @ - d] : tm \in old}
  IN [tm \in new |-> b[[tm EXCEPT !.due = @ + d]]]

\* The clock advances to the next timer that is due.
CameraAdvance ==
  /\ cameraTimers # EmptyBag
  /\ \A tm \in BagToSet(cameraTimers) : tm.due > now
  /\ LET d == CHOOSE d \in {tm.due : tm \in BagToSet(cameraTimers)} :
                \A tm \in BagToSet(cameraTimers) : d <= tm.due
     IN cameraTimers' = ShiftCameraTimers(cameraTimers, d)
  /\ lastOp' = "advance"
  /\ UNCHANGED <<isStreaming, modelsLoaded, detectedFaces, recognitionStatus,
                 doorStatus, autoRecognition, autoRecognitionIntervalRef, pending,
                 timers, cameras, selectedCamera, cameraError, autoStartCamera,
                 streamRef, tracks, video, acquiring, cameraSupport, frameSource,
                 captured>>
  /\ UNCHANGED pageVars

InitCameraSpec ==
  /\ isStreaming = FALSE
  /\ modelsLoaded = FALSE
  /\ detectedFaces = 0
  /\ recognitionStatus = "idle"
  /\ doorStatus = "locked"
  /\ autoRecognition = InitialAutoRecognition
  /\ autoRecognitionIntervalRef = NoInterval
  /\ pending = {}
  /\ timers = EmptyBag
  /\ lastOp = "init"
  /\ InitCameraIn(Support)
  /\ InitPage

NextCamera ==
  \/ CameraLoadModels
  \/ CameraGetCameras
  \/ ToggleAutoStartCamera
  \/ CameraStartStream
  \/ CameraStopStream
  \/ SwitchCamera
  \/ Acquired
  \/ AcquireFailed
  \/ VideoPlays
  \/ PlayFailed
  \/ StabilizeTimeout
  \/ RestartTimeout
  \/ CameraAdvance

SpecCamera == InitCameraSpec /\ [][NextCamera]_vars

\* ----------------------------------------------------------- captureImage
\* The largest readyState of a media element, and the size of a frame.
MaxReadyState == 4
MaxWidth == 640
MaxHeight == 480

\* videoRef.current.readyState < 2
HaveCurrentData == 2

\* Mutant of captureImage: isStreaming is not tested.
captureImageIgnoresStreaming(streaming, v) ==
  IF ~v.hasVideo THEN "none"
  ELSE IF v.paused \/ v.ended THEN "none"
  ELSE IF v.readyState < HaveCurrentData THEN "none"
  ELSE IF v.videoWidth = 0 \/ v.videoHeight = 0 THEN "none"
  ELSE IF ~v.hasContext THEN "none"
  ELSE IF v.throws THEN "none"
  ELSE "image"

\* captureImage of a render whose isStreaming is streaming, on the video
\* element v: null ("none") when there is no element or no streaming, the
\* video is paused or ended, readyState < 2, a dimension is 0, the canvas
\* gives no 2d context, or drawImage / toDataURL throws (caught); otherwise
\* the data URL of the frame ("image").
captureImage(streaming, v) ==
  IF ~v.hasVideo \/ ~streaming THEN "none"
  ELSE IF v.paused \/ v.ended THEN "none"
  ELSE IF v.readyState < HaveCurrentData THEN "none"
  ELSE IF v.videoWidth = 0 \/ v.videoHeight = 0 THEN "none"
  ELSE IF ~v.hasContext THEN "none"
  ELSE IF v.throws THEN "none"
  ELSE "image"

\* The video element as a call of captureImage can find it.  With readyState
\* 0 (nothing loaded) the element has no dimensions.
FrameSources ==
  {v \in [hasVideo : BOOLEAN, paused : BOOLEAN, ended : BOOLEAN,
          readyState : 0..MaxReadyState,
          videoWidth : {0, MaxWidth}, videoHeight : {0, MaxHeight},
          hasContext : BOOLEAN, throws : BOOLEAN] :
     v.readyState = 0 => (v.videoWidth = 0 /\ v.videoHeight = 0)}

InitCapture ==
  /\ isStreaming \in BOOLEAN
  /\ modelsLoaded = FALSE
  /\ detectedFaces = 0
  /\ recognitionStatus = "idle"
  /\ doorStatus = "locked"
  /\ autoRecognition = InitialAutoRecognition
  /\ autoRecognitionIntervalRef = NoInterval
  /\ pending = {}
  /\ timers = EmptyBag
  /\ lastOp = "init"
  /\ cameras = {}
  /\ selectedCamera = NoCamera
  /\ cameraError = NoError
  /\ autoStartCamera = TRUE
  /\ streamRef = NoStream
  /\ tracks = {}
  /\ video = NoVideo
  /\ acquiring = EmptyBag
  /\ cameraTimers = EmptyBag
  /\ cameraSupport = "supported"
  /\ frameSource \in FrameSources
  /\ captured = "none"
  /\ InitPage

\* captureImage() called: it sets no state; captured records what it returned.
CaptureImage ==
  /\ captured' = captureImage(isStreaming, frameSource)
  /\ lastOp' = "captureImage"
  /\ UNCHANGED <<isStreaming, modelsLoaded, detectedFaces, recognitionStatus,
                 doorStatus, autoRecognition, autoRecognitionIntervalRef, pending,
                 timers, cameras, selectedCamera, cameraError, autoStartCamera,
                 streamRef, tracks, video, acquiring, cameraTimers, cameraSupport,
                 frameSource>>
  /\ UNCHANGED pageVars

SpecCapture == InitCapture /\ [][CaptureImage]_vars

\* ------------------------------------------------------- face detection
\* A detection pass (faceapi.detectAllFaces(...).withFaceLandmarks()
\* .withFaceDescriptors()) takes one of these times (ms).
FastDetectMs == 100
SlowDetectMs == 700
\* At most this many faces are told apart in detectedFaces.length.
MaxFaces == 1
\* Interval ids handed out by setInterval are told apart up to this many.
MaxDetectionTimers == 3

\* setInterval(detectFaces, 300)
DetectMs == 300

DetectLatencies == {FastDetectMs, SlowDetectMs}

\* The ids of the detection intervals that are live.
LiveIds(timerSet) == {tm.id : tm \in timerSet}

\* clearInterval(id): 0 (null) and ids that are not live clear nothing.
clearInterval(timerSet, id) == {tm \in timerSet : tm.id # id}

\* The id setInterval returns: one that is not in use.
FreshTimerId(timerSet, ref) ==
  CHOOSE id \in 1..MaxDetectionTimers :
    /\ id \notin LiveIds(timerSet) \cup {ref}
    /\ \A other \in 1..MaxDetectionTimers :
         other \notin LiveIds(timerSet) \cup {ref} => id <= other

\* Mutant of detectionEffect: neither the cleanup nor the else branch clears
\* the interval.
detectionEffectNeverClears(ref, timerSet, streaming2, loaded2) ==
  IF <<streaming2, loaded2>> = <<isStreaming, modelsLoaded>>
  THEN [ref |-> ref, timers |-> timerSet]
  ELSE IF streaming2 /\ loaded2
       THEN LET id == FreshTimerId(timerSet, ref)
            IN [ref |-> id,
                timers |-> timerSet \cup {[id |-> id, due |-> now + DetectMs]}]
       ELSE [ref |-> NoDetectionInterval, timers |-> timerSet]

\* The detection interval effect, deps [isStreaming, modelsLoaded, detectFaces]
\* (detectFaces changes with isStreaming and modelsLoaded only).  When a dep
\* changed: the cleanup of the last run clears the interval of the ref (and
\* leaves the ref), then while streaming with the models loaded a new interval
\* is set and stored, and otherwise the interval of the ref is cleared and the
\* ref set to null.
detectionEffect(ref, timerSet, streaming2, loaded2) ==
  IF <<streaming2, loaded2>> = <<isStreaming, modelsLoaded>>
  THEN [ref |-> ref, timers |-> timerSet]
  ELSE LET cleaned == clearInterval(timerSet, ref)
       IN IF streaming2 /\ loaded2
          THEN LET id == FreshTimerId(cleaned, ref)
               IN [ref |-> id,
                   timers |-> cleaned \cup {[id |-> id, due |-> now + DetectMs]}]
          ELSE [ref |-> NoDetectionInterval,
                timers |-> clearInterval(cleaned, ref)]

\* The page is mounted (the history records the unmount).
Mounted == lastOp # "unmount"

\* A render commit of the page that changes isStreaming or modelsLoaded: both
\* interval effects follow it.  Passes in flight are not touched.
DetectionCommit(streaming2, loaded2) ==
  /\ Mounted
  /\ Commit(autoRecognitionIntervalRef, autoRecognition, streaming2, loaded2,
            detectedFaces, recognitionStatus)
  /\ LET e == detectionEffect(detectionIntervalRef, detectionTimers,
                              streaming2, loaded2)
     IN /\ detectionIntervalRef' = e.ref
        /\ detectionTimers' = e.timers
  /\ UNCHANGED <<doorStatus, pending, timers, cameraVars, detecting, enrollmentVars,
               controllerVars>>

\* loadModels: setModelsLoaded(true)
DetectionLoadModels ==
  /\ ~modelsLoaded
  /\ DetectionCommit(isStreaming, TRUE)
  /\ lastOp' = "loadModels"

\* startStream, once the video plays: setIsStreaming(true)
DetectionStartStream ==
  /\ ~isStreaming
  /\ DetectionCommit(TRUE, modelsLoaded)
  /\ lastOp' = "startStream"

\* stopStream: setIsStreaming(false)
DetectionStopStream ==
  /\ isStreaming
  /\ DetectionCommit(FALSE, modelsLoaded)
  /\ lastOp' = "stopStream"

\* The page unmounts: the cleanup of the interval effect and the cleanup of
\* the unmount effect clear the interval of the ref.  Nothing of the page runs
\* afterwards.
DetectionUnmount ==
  /\ Mounted
  /\ detectionTimers' = clearInterval(detectionTimers, detectionIntervalRef)
  /\ lastOp' = "unmount"
  /\ UNCHANGED <<isStreaming, modelsLoaded, detectedFaces, recognitionStatus,
                 doorStatus, autoRecognition, autoRecognitionIntervalRef, pending,
                 timers, cameraVars, enrollmentVars, controllerVars, detectionIntervalRef,
                 detecting>>

\* A tick of a live detection interval calls detectFaces.  ready: the video
\* has a size and readyState >= 2; otherwise detectFaces returns at once.  A
\* pass that starts runs for latency ms, whatever passes are already running.
DetectionTick ==
  /\ \E tm \in detectionTimers :
       /\ tm.due = now
       /\ detectionTimers' =
            (detectionTimers \ {tm}) \cup {[tm EXCEPT !.due = now + DetectMs]}
  /\ \E ready \in BOOLEAN :
       IF ready /\ modelsLoaded /\ isStreaming
       THEN /\ \E latency \in DetectLatencies :
                 detecting' = detecting (+) SetToBag({latency})
            /\ lastOp' = "detectStart"
       ELSE /\ detecting' = detecting
            /\ lastOp' = "detectSkip"
  /\ UNCHANGED <<isStreaming, modelsLoaded, detectedFaces, recognitionStatus,
                 doorStatus, autoRecognition, autoRecognitionIntervalRef, pending,
                 timers, cameraVars, enrollmentVars, controllerVars, detectionIntervalRef>>

\* detectFaces when the pass throws: the catch logs, setDetectedFaces is not
\* reached.
detectionFailed(faces) == faces

\* A pass completes: setDetectedFaces(detections.map(...)), or the catch that
\* only logs.  Nothing ties the result to the stream that was filmed.
DetectionDone ==
  /\ Mounted
  /\ BagIn(now, detecting)
  /\ detecting' = detecting (-) SetToBag({now})
  /\ \/ /\ \E faces \in 0..MaxFaces :
             Commit(autoRecognitionIntervalRef, autoRecognition, isStreaming,
                    modelsLoaded, faces, recognitionStatus)
        /\ lastOp' = "detectDone"
     \/ /\ Commit(autoRecognitionIntervalRef, autoRecognition, isStreaming,
                  modelsLoaded, detectionFailed(detectedFaces), recognitionStatus)
        /\ lastOp' = "detectError"
  /\ UNCHANGED <<doorStatus, pending, timers, cameraVars, detectionIntervalRef,
                 detectionTimers, enrollmentVars, controllerVars>>

\* detecting, ms later.
ShiftDetecting(b, ms) ==
  LET new == {t - ms : t \in BagToSet(b)}
  IN [t \in new |-> b[t + ms]]

\* The times at which something of the detection is due.
DetectionDues ==
  BagToSet(detecting) \cup {tm.due : tm \in detectionTimers}

\* The clock advances to the next tick or the next end of a pass.
DetectionAdvance ==
  /\ Mounted
  /\ DetectionDues # {}
  /\ \A t \in DetectionDues : t > now
  /\ LET ms == CHOOSE d \in DetectionDues : \A t \in DetectionDues : d <= t
     IN /\ detecting' = ShiftDetecting(detecting, ms)
        /\ detectionTimers' = {[tm EXCEPT !.due = @ - ms] : tm \in detectionTimers}
  /\ lastOp' = "advance"
  /\ UNCHANGED <<isStreaming, modelsLoaded, detectedFaces, recognitionStatus,
                 doorStatus, autoRecognition, autoRecognitionIntervalRef, pending,
                 timers, cameraVars, enrollmentVars, controllerVars, detectionIntervalRef>>

NextDetection ==
  \/ DetectionLoadModels
  \/ DetectionStartStream
  \/ DetectionStopStream
  \/ DetectionUnmount
  \/ DetectionTick
  \/ DetectionDone
  \/ DetectionAdvance

SpecDetection == Init /\ [][NextDetection]_vars

\* ------------------------------------------------- multi-variation capture
\* At most this many addFaceVariation calls of captureNextVariation, this many
\* finishMultiVariationCapture calls and this many handleAddFaceVariation
\* calls are in flight at a time.
MaxUploads == 2
MaxFinishing == 1
MaxAdding == 1
\* At most this many times the capture button is clicked while an upload of an
\* earlier click is still in flight.
MaxOverlaps == 1

\* The people enrolled in the model.
PersonNames == {"An", "Binh"}

\* VARIATION_TYPES (types/index.ts), by value; VARIATION_TYPES[i] of the source
\* is VARIATION_TYPES[i + 1] here.
VARIATION_TYPES ==
  <<"default", "with_glasses", "no_glasses", "left_angle", "right_angle",
    "slight_smile", "serious">>

\* A video element that captureImage can grab a frame from.
LiveFrame ==
  [hasVideo |-> TRUE, paused |-> FALSE, ended |-> FALSE,
   readyState |-> MaxReadyState, videoWidth |-> MaxWidth,
   videoHeight |-> MaxHeight, hasContext |-> TRUE, throws |-> FALSE]

\* The video element as a capture of the overlay can find it.
EnrollmentFrames == {NoFrame, LiveFrame}

\* The four state values of the multi-variation capture, as one record.
Session ==
  [isCapturingVariations |-> isCapturingVariations,
   currentVariationIndex |-> currentVariationIndex,
   capturedVariations |-> capturedVariations,
   personNameForVariations |-> personNameForVariations]

\* The render commit of the four values.
SetSession(s) ==
  /\ isCapturingVariations' = s.isCapturingVariations
  /\ currentVariationIndex' = s.currentVariationIndex
  /\ capturedVariations' = s.capturedVariations
  /\ personNameForVariations' = s.personNameForVariations

\* Mutant of startMultiVariationCapture: setCapturedVariations([]) is left out.
startMultiVariationCaptureKeepsCaptured(s, personName) ==
  [s EXCEPT !.personNameForVariations = personName,
            !.isCapturingVariations = TRUE,
            !.currentVariationIndex = 0]

\* startMultiVariationCapture(personName)
startMultiVariationCapture(s, personName) ==
  [s EXCEPT !.personNameForVariations = personName,
            !.isCapturingVariations = TRUE,
            !.currentVariationIndex = 0,
            !.capturedVariations = << >>]

\* Mutant of variationRequest: the entry after the current one is sent.
variationRequestOfNext(s) ==
  [name |-> s.personNameForVariations,
   type |-> VARIATION_TYPES[((s.currentVariationIndex + 1) % Len(VARIATION_TYPES)) + 1]]

\* captureNextVariation: addFaceVariation(personNameForVariations, imageBase64,
\* VARIATION_TYPES[currentVariationIndex].value), of the render of the click.
variationRequest(s) ==
  [name |-> s.personNameForVariations,
   type |-> VARIATION_TYPES[s.currentVariationIndex + 1]]

\* Mutant of captureSucceeded: setCurrentVariationIndex(prev => prev + 1) is
\* left out.
captureSucceededKeepsIndex(s, type) ==
  [s EXCEPT !.capturedVariations = Append(@, type)]

\* captureNextVariation, success: setCapturedVariations(prev => [...prev,
\* currentVariationType.value]); setCurrentVariationIndex(prev => prev + 1)
captureSucceeded(s, type) ==
  [s EXCEPT !.capturedVariations = Append(@, type),
            !.currentVariationIndex = @ + 1]

\* Mutant of captureFailed: a capture that failed moves to the next entry.
captureFailedSkips(s) ==
  [s EXCEPT !.currentVariationIndex = @ + 1]

\* captureNextVariation when captureImage() gave null or addFaceVariation
\* gave false: an alert, no state is set.
captureFailed(s) == s

\* Mutant of captureEnabled: the button does not look at detectedFaces.
captureEnabledWithoutFace(streaming, faces) == streaming

\* The capture button of the overlay:
\* disabled={!isStreaming || detectedFaces.length === 0}
captureEnabled(streaming, faces) == streaming /\ faces # 0

\* finishMultiVariationCapture up to its await: setIsCapturingVariations(false)
finishStarted(s) == [s EXCEPT !.isCapturingVariations = FALSE]

\* finishMultiVariationCapture after await fetchFaces():
\* setPersonNameForVariations(""); setCurrentVariationIndex(0);
\* setCapturedVariations([])
finishReset(s) ==
  [s EXCEPT !.personNameForVariations = "",
            !.currentVariationIndex = 0,
            !.capturedVariations = << >>]

\* What an enrollment action leaves alone.
EnrollmentFrame ==
  UNCHANGED <<isStreaming, modelsLoaded, detectedFaces, recognitionStatus,
              doorStatus, autoRecognition, autoRecognitionIntervalRef, pending,
              timers, cameraVars, detectionVars, controllerVars>>

\* handleAddFaceVariation(name, "default") from the face management forms
\* (under the overlay while it is shown): captureImage(), then
\* await addFaceVariation(...)
AddFace ==
  /\ ~isCapturingVariations
  /\ BagCardinality(adding) < MaxAdding
  /\ \E name \in PersonNames, v \in EnrollmentFrames :
       IF captureImage(isStreaming, v) = "none"
       THEN /\ adding' = adding
            /\ lastOp' = "addNoFrame"
       ELSE /\ adding' = adding (+) SetToBag({name})
            /\ lastOp' = "addSubmit"
  /\ SetSession(Session)
  /\ UNCHANGED <<uploads, finishing, overlaps>>
  /\ EnrollmentFrame

\* addFaceVariation of handleAddFaceVariation came back: for a new person
\* whose confirm() is accepted, startMultiVariationCapture(name); otherwise
\* an alert.
AddFaceDone ==
  /\ \E name \in BagToSet(adding) :
       /\ adding' = adding (-) SetToBag({name})
       /\ \/ /\ SetSession(startMultiVariationCapture(Session, name))
             /\ lastOp' = "startSession"
          \/ /\ SetSession(Session)
             /\ lastOp' = "addDone"
  /\ UNCHANGED <<uploads, finishing, overlaps>>
  /\ EnrollmentFrame

\* A click on the capture button of the overlay: captureNextVariation of the
\* current render.  Past the last entry it calls finishMultiVariationCapture;
\* otherwise captureImage(), then await addFaceVariation(...).
CaptureNextVariation ==
  /\ isCapturingVariations
  /\ captureEnabled(isStreaming, detectedFaces)
  /\ IF currentVariationIndex >= Len(VARIATION_TYPES)
     THEN /\ finishing < MaxFinishing
          /\ SetSession(finishStarted(Session))
          /\ finishing' = finishing + 1
          /\ uploads' = uploads
          /\ lastOp' = "complete"
          /\ overlaps' = overlaps
     ELSE \E v \in EnrollmentFrames :
            IF captureImage(isStreaming, v) = "none"
            THEN /\ SetSession(captureFailed(Session))
                 /\ UNCHANGED <<uploads, finishing, overlaps>>
                 /\ lastOp' = "captureNoFrame"
            ELSE /\ BagCardinality(uploads) < MaxUploads
                 /\ uploads # EmptyBag => overlaps < MaxOverlaps
                 /\ overlaps' = IF uploads # EmptyBag THEN overlaps + 1 ELSE overlaps
                 /\ SetSession(Session)
                 /\ uploads' = uploads (+) SetToBag({variationRequest(Session)})
                 /\ finishing' = finishing
                 /\ lastOp' = "captureSubmit"
  /\ adding' = adding
  /\ EnrollmentFrame

\* addFaceVariation of captureNextVariation came back: true (the service
\* answered success), or false (non-success, or apiService.addFace threw).
UploadDone ==
  /\ \E u \in BagToSet(uploads) :
       /\ uploads' = uploads (-) SetToBag({u})
       /\ \/ /\ SetSession(captureSucceeded(Session, u.type))
             /\ lastOp' = "captureSuccess"
          \/ /\ SetSession(captureFailed(Session))
             /\ lastOp' = "captureFailure"
  /\ UNCHANGED <<finishing, adding, overlaps>>
  /\ EnrollmentFrame

\* A click on "Bo qua": finishMultiVariationCapture up to await fetchFaces().
SkipVariations ==
  /\ isCapturingVariations
  /\ finishing < MaxFinishing
  /\ SetSession(finishStarted(Session))
  /\ finishing' = finishing + 1
  /\ lastOp' = "skip"
  /\ UNCHANGED <<uploads, adding, overlaps>>
  /\ EnrollmentFrame

\* fetchFaces of finishMultiVariationCapture came back (it never throws):
\* the notification, then the three resets.
FinishDone ==
  /\ finishing > 0
  /\ finishing' = finishing - 1
  /\ SetSession(finishReset(Session))
  /\ lastOp' = "finishReset"
  /\ UNCHANGED <<uploads, adding, overlaps>>
  /\ EnrollmentFrame

NextEnrollment ==
  \/ LoadModels
  \/ StartStream
  \/ StopStream
  \/ DetectFaces
  \/ AddFace
  \/ AddFaceDone
  \/ CaptureNextVariation
  \/ UploadDone
  \/ SkipVariations
  \/ FinishDone

SpecEnrollment == Init /\ [][NextEnrollment]_vars

\* startMultiVariationCapture as a function of the state it is called in: what
\* an earlier capture of variations can have left behind (active or not, any
\* index up to the catalog length and the overlaps beyond it, a person name or
\* none, a prefix of the catalog or a list with a duplicate), with one
\* handleAddFaceVariation call in flight.
SessionStates ==
  [isCapturingVariations : BOOLEAN,
   currentVariationIndex : 0..(Len(VARIATION_TYPES) + MaxOverlaps),
   capturedVariations :
     {SubSeq(VARIATION_TYPES, 1, k) : k \in 0..Len(VARIATION_TYPES)}
       \cup {<<VARIATION_TYPES[1], VARIATION_TYPES[1]>>},
   personNameForVariations : PersonNames \cup {""}]

InitStartSession ==
  /\ isStreaming = FALSE
  /\ modelsLoaded = FALSE
  /\ detectedFaces = 0
  /\ recognitionStatus = "idle"
  /\ doorStatus = "locked"
  /\ autoRecognition = InitialAutoRecognition
  /\ autoRecognitionIntervalRef = NoInterval
  /\ pending = {}
  /\ timers = EmptyBag
  /\ lastOp = "init"
  /\ InitCamera
  /\ InitDetection
  /\ \E s \in SessionStates :
       /\ isCapturingVariations = s.isCapturingVariations
       /\ currentVariationIndex = s.currentVariationIndex
       /\ capturedVariations = s.capturedVariations
       /\ personNameForVariations = s.personNameForVariations
  /\ uploads = EmptyBag
  /\ finishing = 0
  /\ \E name \in PersonNames : adding = SetToBag({name})
  /\ overlaps = 0
  /\ InitController

SpecStartSession == InitStartSession /\ [][AddFaceDone]_vars

\* -------------------------------------------------------- door controller
\* The sketch of the door controller (ESP8266).  setup() has run; loop() is
\* one action, with the time its waits and its HTTP calls take.  The sketch
\* keeps no other state than the variables below: the requests it posts
\* (register, status, acknowledge) only print their result.

\* An HTTP call takes one of these times (ms).
FastHttpMs == 100
SlowHttpMs == 1000
HttpDurations == {FastHttpMs, SlowHttpMs}

\* What checkDoorCommand gets: the open_door command, another command, a 200
\* without a command, a 200 that does not parse, a 404, another HTTP error.
Responses == {"open_door", "other_command", "no_command", "parse_error",
              "not_found", "http_error"}

Controller ==
  [wifiStatus |-> wifiStatus, doorIsOpen |-> doorIsOpen,
   doorOpenedAt |-> doorOpenedAt, lastCheck |-> lastCheck, lastBlink |-> lastBlink,
   RELAY_PIN |-> RELAY_PIN, DOOR_LED_PIN |-> DOOR_LED_PIN,
   STATUS_LED_PIN |-> STATUS_LED_PIN]

\* ms pass: every stored time moves back.
delay(s, ms) ==
  [s EXCEPT !.doorOpenedAt = Earlier(@, ms, doorOpenDuration),
            !.lastCheck = Earlier(@, ms, checkInterval),
            !.lastBlink = Earlier(@, ms, BlinkMs)]

\* openDoor: nothing when the door is open; else LED and relay on,
\* doorIsOpen = true, doorOpenedAt = millis(), updateDoorStatus("open").
openDoor(s, httpMs) ==
  IF s.doorIsOpen THEN s
  ELSE delay([s EXCEPT !.DOOR_LED_PIN = "LOW", !.RELAY_PIN = "HIGH",
                       !.doorIsOpen = TRUE, !.doorOpenedAt = now],
             httpMs)

\* closeDoor: nothing when the door is closed; else LED and relay off,
\* doorIsOpen = false, updateDoorStatus("closed").
closeDoor(s, httpMs) ==
  IF ~s.doorIsOpen THEN s
  ELSE delay([s EXCEPT !.DOOR_LED_PIN = "HIGH", !.RELAY_PIN = "LOW",
                       !.doorIsOpen = FALSE],
             httpMs)

\* checkDoorCommand: the GET, and for has_command with "open_door" openDoor()
\* and acknowledgeCommand().
checkDoorCommand(s, response, httpMs) ==
  LET got == delay(s, httpMs)
  IN IF response = "open_door" THEN delay(openDoor(got, httpMs), httpMs) ELSE got

\* connectToWiFi: WiFi.begin and up to 20 waits of 500 ms; connected, it
\* registers the device.
connectToWiFi(s, attempts, httpMs) ==
  LET waited == delay(s, attempts * ConnectStepMs)
  IN IF accessPoint = "up"
     THEN delay([waited EXCEPT !.wifiStatus = "WL_CONNECTED"], httpMs)
     ELSE waited

\* loop() with WiFi connected: the command check when it is due, the auto
\* close, the blink of the status LED, delay(100).
loopConnected(s, response, httpMs) ==
  LET checked == IF now - s.lastCheck >= checkInterval
                 THEN [checkDoorCommand(s, response, httpMs) EXCEPT !.lastCheck = now]
                 ELSE s
      closed == IF checked.doorIsOpen /\ now - checked.doorOpenedAt >= doorOpenDuration
                THEN closeDoor(checked, httpMs)
                ELSE checked
      blinked == IF now - closed.lastBlink >= BlinkMs
                 THEN [closed EXCEPT
                         !.STATUS_LED_PIN = IF @ = "HIGH" THEN "LOW" ELSE "HIGH",
                         !.lastBlink = now]
                 ELSE closed
  IN delay(blinked, DelayMs)

\* What a controller action leaves alone.
ControllerFrame ==
  UNCHANGED <<isStreaming, modelsLoaded, detectedFaces, recognitionStatus,
              doorStatus, autoRecognition, autoRecognitionIntervalRef, pending,
              timers, cameraVars, detectionVars, enrollmentVars, accessPoint>>

\* One call of loop(): without WiFi it is connectToWiFi() and return.
Loop ==
  \E response \in Responses, httpMs \in HttpDurations, attempts \in ConnectAttempts :
    LET s == IF wifiStatus # "WL_CONNECTED"
             THEN connectToWiFi(Controller, attempts, httpMs)
             ELSE loopConnected(Controller, response, httpMs)
    IN /\ (wifiStatus # "WL_CONNECTED" /\ accessPoint = "down")
            => attempts = ConnectAttemptsLimit
       /\ wifiStatus' = s.wifiStatus
       /\ doorIsOpen' = s.doorIsOpen
       /\ doorOpenedAt' = s.doorOpenedAt
       /\ lastCheck' = s.lastCheck
       /\ lastBlink' = s.lastBlink
       /\ RELAY_PIN' = s.RELAY_PIN
       /\ DOOR_LED_PIN' = s.DOOR_LED_PIN
       /\ STATUS_LED_PIN' = s.STATUS_LED_PIN
       /\ lastOp' = IF wifiStatus # "WL_CONNECTED" THEN "connectToWiFi"
                    ELSE IF s.doorIsOpen /\ ~doorIsOpen THEN "openDoor"
                    ELSE IF ~s.doorIsOpen /\ doorIsOpen THEN "closeDoor"
                    ELSE IF now - lastCheck >= checkInterval THEN "checkDoorCommand"
                    ELSE "loop"
       /\ ControllerFrame

\* The network goes out of reach: WiFi.status() is no longer WL_CONNECTED.
AccessPointDown ==
  /\ accessPoint = "up"
  /\ accessPoint' = "down"
  /\ wifiStatus' = "WL_DISCONNECTED"
  /\ lastOp' = "wifiLost"
  /\ UNCHANGED <<doorIsOpen, doorOpenedAt, lastCheck, lastBlink, RELAY_PIN,
                 DOOR_LED_PIN, STATUS_LED_PIN>>
  /\ UNCHANGED <<isStreaming, modelsLoaded, detectedFaces, recognitionStatus,
                 doorStatus, autoRecognition, autoRecognitionIntervalRef, pending,
                 timers, cameraVars, detectionVars, enrollmentVars>>

\* The network is in reach again; the sketch connects in its next loop().
AccessPointUp ==
  /\ accessPoint = "down"
  /\ accessPoint' = "up"
  /\ lastOp' = "wifiBack"
  /\ UNCHANGED <<wifiStatus, doorIsOpen, doorOpenedAt, lastCheck, lastBlink,
                 RELAY_PIN, DOOR_LED_PIN, STATUS_LED_PIN>>
  /\ UNCHANGED <<isStreaming, modelsLoaded, detectedFaces, recognitionStatus,
                 doorStatus, autoRecognition, autoRecognitionIntervalRef, pending,
                 timers, cameraVars, detectionVars, enrollmentVars>>

InitControllerSpec ==
  /\ isStreaming = FALSE
  /\ modelsLoaded = FALSE
  /\ detectedFaces = 0
  /\ recognitionStatus = "idle"
  /\ doorStatus = "locked"
  /\ autoRecognition = InitialAutoRecognition
  /\ autoRecognitionIntervalRef = NoInterval
  /\ pending = {}
  /\ timers = EmptyBag
  /\ lastOp = "init"
  /\ InitCamera
  /\ InitDetection
  /\ InitEnrollment
  /\ InitControllerIn({"up", "down"}, ConnectAttempts)

NextController ==
  \/ Loop
  \/ AccessPointDown
  \/ AccessPointUp

SpecController == InitControllerSpec /\ [][NextController]_vars

\* The core calls loop() again and again.
SpecControllerFair == SpecController /\ WF_vars(Loop)

\* ------------------------------------------------------------ vocabulary

TickBranches ==
  {"early_return", "cooldown", "max_attempts", "too_soon", "no_image", "request"}

\* The step is a scheduling tick / a tick that issued a recognition request.
TickStep == lastOp' \in TickBranches
IssueStep == lastOp' = "request"

\* A cooldown is armed and its deadline has not passed.
InCooldown(a) == a.cooldownUntil # Null /\ now < a.cooldownUntil

\* The pending timers of one kind.
TimersOf(b, kind) ==
  LET of == {tm \in BagToSet(b) : tm.kind = kind}
  IN [tm \in of |-> b[tm]]

\* ------------------------------------------------------------------ C1
\* C1: at most one recognition request is outstanding at any instant.
SingleFlight == Cardinality(pending) <= 1

\* ------------------------------------------------------------------ C2
\* C2: handling a recognized = true response leaves isActive false, and while
\* isActive is false no recognition request is issued and nothing but
\* startAutoRecognition makes it true again.
StoppedUntilRestart ==
  [][ /\ lastOp' = "recognized" => ~autoRecognition'.isActive
      /\ ~autoRecognition.isActive =>
           /\ ~IssueStep
           /\ autoRecognition'.isActive => lastOp' = "startAutoRecognition" ]_vars

\* A recognized response was handled while the loop was set to run, and the
\* controller is stopped with no interval left.
StoppedAfterRecognition ==
  /\ lastOp = "recognized"
  /\ isStreaming /\ modelsLoaded /\ detectedFaces > 0
  /\ ~autoRecognition.isActive
  /\ ~autoRecognitionIntervalRef.live

\* ------------------------------------------------------------------ C3
\* C3: a recognized = true response unlocks the door and schedules exactly one
\* return, due after the settle duration; the return locks the door, sets the
\* status to idle and is consumed; the door is never unlocked without a return
\* pending within the settle duration.
UnlockAlwaysReturns ==
  [][ /\ lastOp' = "recognized" =>
           /\ doorStatus' = "unlocked"
           /\ timers' = timers (+) SetToBag({[kind |-> "settle", due |-> now + SettleMs]})
      /\ lastOp' = "settle" =>
           /\ doorStatus' = "locked"
           /\ recognitionStatus' = "idle"
           /\ BagCardinality(TimersOf(timers', "settle"))
                = BagCardinality(TimersOf(timers, "settle")) - 1
      /\ lastOp' \notin {"recognized", "settle", "advance"} =>
           TimersOf(timers', "settle") = TimersOf(timers, "settle")
      /\ doorStatus' = "unlocked" =>
           \E tm \in BagToSet(timers') :
             tm.kind = "settle" /\ now <= tm.due /\ tm.due <= now + SettleMs ]_vars

\* The return of a recognition has fired: the door is locked again and the
\* status idle, with no return left over.
ReturnFired ==
  /\ lastOp = "settle"
  /\ doorStatus = "locked"
  /\ recognitionStatus = "idle"
  /\ TimersOf(timers, "settle") = EmptyBag

\* ------------------------------------------------------------------ C4
\* C4: no recognition request is issued while a cooldown is armed and its
\* deadline has not passed.
NoRequestInCooldown ==
  [][ IssueStep => ~InCooldown(autoRecognition) ]_vars

\* A tick was suppressed by the armed cooldown.
TickSuppressedByCooldown ==
  /\ lastOp = "cooldown"
  /\ InCooldown(autoRecognition)
  /\ autoRecognition.isActive /\ isStreaming /\ detectedFaces > 0

\* ------------------------------------------------------------------ C5
\* C5: after a cooldown has expired, a tick at which the loop is active, the
\* camera streams, a face is detected and the controller is idle with no
\* request outstanding starts a new attempt (it issues the request, or fails
\* to capture a frame); nothing but the ticks is needed.  While an interval
\* lives its closure cannot change, so a tick that does not start the attempt
\* here is repeated by every later tick.
ResumesAfterCooldown ==
  [][ ( /\ TickStep
        /\ autoRecognition.cooldownUntil # Null
        /\ now >= autoRecognition.cooldownUntil
        /\ autoRecognition.isActive
        /\ isStreaming
        /\ detectedFaces > 0
        /\ recognitionStatus = "idle"
        /\ pending = {}
        /\ autoRecognition.attemptCount < autoRecognition.maxAttempts
        /\ now - autoRecognition.lastAttempt >= MinIntervalMs )
      => lastOp' \in {"request", "no_image"} ]_vars

\* ------------------------------------------------------------------ C6
\* C6 (every response is Unknown, SpecUnknown): once ten attempts in a row have
\* ended in Unknown since the start, a tick issues no further request: it is
\* suppressed, by arming the cooldown or by the armed cooldown.
EleventhTickSuppressed ==
  [][ ( /\ TickStep
        /\ autoRecognition.isActive
        /\ autoRecognition.attemptCount >= autoRecognition.maxAttempts )
      => ~IssueStep ]_vars

\* ------------------------------------------------------------------ C7
\* C7: a request is issued only at a tick where, in the current state, the
\* controller is idle, isActive is true, a face is detected and
\* attemptCount < maxAttempts.
RequestOnlyWhenGuardsHold ==
  [][ IssueStep =>
        /\ recognitionStatus = "idle"
        /\ autoRecognition.isActive
        /\ detectedFaces > 0
        /\ autoRecognition.attemptCount < autoRecognition.maxAttempts ]_vars

\* ------------------------------------------------------------------ C8
\* C8: a request is started at least 2000 ms after the start of every earlier
\* one: the ones still outstanding and the last one answered.
MinimumSpacing ==
  [][ IssueStep =>
        /\ \A t \in pending : now - t >= MinIntervalMs
        /\ now - autoRecognition.lastAttempt >= MinIntervalMs ]_vars

\* ------------------------------------------------------------------ C9
\* C9 (responses are late or missing, SpecSlow): a tick at which a response
\* is still missing, the start of every earlier attempt is at least 2000 ms
\* back and the other guards hold (active, streaming, face detected, no
\* cooldown, attemptCount < maxAttempts) starts a new attempt.
MissingResponseDoesNotBlock ==
  [][ ( /\ TickStep
        /\ pending # {}
        /\ \A t \in pending : now - t >= MinIntervalMs
        /\ now - autoRecognition.lastAttempt >= MinIntervalMs
        /\ autoRecognition.isActive
        /\ isStreaming
        /\ detectedFaces > 0
        /\ ~InCooldown(autoRecognition)
        /\ autoRecognition.attemptCount < autoRecognition.maxAttempts )
      => lastOp' \in {"request", "no_image"} ]_vars

\* ------------------------------------------------------------------ C10
\* C10: every answer other than recognized = true (recognized = false,
\* success = false or no result, a transport or parse failure) puts the
\* controller in Unknown with the return to Idle scheduled after the display
\* delay.
FailureShowsUnknown ==
  [][ lastOp' \in {"unknown", "nosuccess", "error"} =>
        /\ recognitionStatus' = "unknown"
        /\ \E tm \in BagToSet(timers') :
             tm.kind = "display" /\ tm.due = now + DisplayMs ]_vars

\* ------------------------------------------------------------------ C11
\* C11: stopAutoRecognition leaves isActive false and no interval set; while
\* isActive is false no scheduling tick runs, no request is issued, and only
\* startAutoRecognition makes isActive true again.
StopCancelsScheduling ==
  [][ /\ lastOp' = "stopAutoRecognition" =>
           /\ ~autoRecognition'.isActive
           /\ ~autoRecognitionIntervalRef'.live
      /\ ~autoRecognition.isActive =>
           /\ ~autoRecognitionIntervalRef.live
           /\ ~TickStep
           /\ ~IssueStep
           /\ autoRecognition'.isActive => lastOp' = "startAutoRecognition" ]_vars

\* The user stopped the loop where the next tick would have started an
\* attempt: streaming, models loaded, a face detected, the controller idle.
StoppedByUser ==
  /\ lastOp = "stopAutoRecognition"
  /\ isStreaming /\ modelsLoaded /\ detectedFaces > 0
  /\ recognitionStatus = "idle"
  /\ ~autoRecognition.isActive
  /\ ~autoRecognitionIntervalRef.live

\* ------------------------------------------------------------------ C12
\* C12: a recognition response handled after stopAutoRecognition (isActive
\* false) or after stopStream (not streaming) changes nothing: attemptCount,
\* lastAttempt, cooldownUntil, isActive, the recognition status and the door
\* status are what they were.
LateResponseDiscarded ==
  [][ ( /\ lastOp' \in ResponseKinds
        /\ ~autoRecognition.isActive \/ ~isStreaming )
      => /\ autoRecognition' = autoRecognition
         /\ recognitionStatus' = recognitionStatus
         /\ doorStatus' = doorStatus ]_vars

\* ------------------------------------------------------------------ C13
\* C13: when stopStream was called while the controller was scanning, then one
\* scheduling period later the controller is idle with isActive false.
StopStreamForcesIdle ==
  [][ ( /\ lastOp = "stopStream"
        /\ recognitionStatus = "scanning"
        /\ lastOp' = "advance" )
      => /\ recognitionStatus' = "idle"
         /\ ~autoRecognition'.isActive ]_vars

\* ------------------------------------------------------------------ C14
\* The step starts the loop (isActive false -> true) / arms a cooldown.
Activates == ~autoRecognition.isActive /\ autoRecognition'.isActive
ArmsCooldown == lastOp' = "max_attempts"

\* The step takes attemptCount from a positive value to 0.
ResetsCount ==
  autoRecognition.attemptCount > 0 /\ autoRecognition'.attemptCount = 0

\* C14 as stated: while isActive stays true attemptCount does not decrease
\* except to 0; starting the loop and arming a cooldown leave it 0; and it goes
\* to 0 in no other step (not in a stop, not in handling a response).
CountResetOnlyByStartOrCooldown ==
  [][ /\ (autoRecognition.isActive /\ autoRecognition'.isActive) =>
           \/ autoRecognition'.attemptCount >= autoRecognition.attemptCount
           \/ autoRecognition'.attemptCount = 0
      /\ (Activates \/ ArmsCooldown) => autoRecognition'.attemptCount = 0
      /\ ResetsCount => (Activates \/ ArmsCooldown) ]_vars

\* C14 amended: as above, but attemptCount also goes to 0 in every
\* stopAutoRecognition (the toggle, and the handling of a recognized = true
\* response, which calls it); in every other step it stays or grows by one,
\* and it grows only in the handling of a response.
CountResetByStartStopOrCooldown ==
  [][ /\ (autoRecognition.isActive /\ autoRecognition'.isActive) =>
           \/ autoRecognition'.attemptCount >= autoRecognition.attemptCount
           \/ autoRecognition'.attemptCount = 0
      /\ (Activates \/ ArmsCooldown) => autoRecognition'.attemptCount = 0
      /\ lastOp' \in {"stopAutoRecognition", "recognized"} =>
           autoRecognition'.attemptCount = 0
      /\ ResetsCount =>
           \/ Activates
           \/ ArmsCooldown
           \/ lastOp' \in {"stopAutoRecognition", "recognized"}
      /\ autoRecognition'.attemptCount
           \in {0, autoRecognition.attemptCount, autoRecognition.attemptCount + 1}
      /\ autoRecognition'.attemptCount = autoRecognition.attemptCount + 1 =>
           lastOp' \in {"unknown", "nosuccess"} ]_vars

\* A tick armed the cooldown after maxAttempts answered attempts and reset
\* the count, with the loop still active.
CountResetByCooldown ==
  /\ lastOp = "max_attempts"
  /\ autoRecognition.isActive
  /\ autoRecognition.attemptCount = 0
  /\ autoRecognition.cooldownUntil = now + CooldownMs

\* ------------------------------------------------------------------ C15
\* C15 (SpecStart): from any prior state startAutoRecognition leaves isActive
\* true, attemptCount 0 and cooldownUntil null, with maxAttempts and
\* lastAttempt as they were.
StartYieldsFreshActive ==
  [][ lastOp' = "startAutoRecognition" =>
        /\ autoRecognition'.isActive
        /\ autoRecognition'.attemptCount = 0
        /\ autoRecognition'.cooldownUntil = Null
        /\ autoRecognition'.maxAttempts = autoRecognition.maxAttempts
        /\ autoRecognition'.lastAttempt = autoRecognition.lastAttempt ]_vars

\* startAutoRecognition was called in a state with an attempt just answered
\* (lastAttempt = now survives the call).
StartedWithLastAttemptKept ==
  /\ lastOp = "startAutoRecognition"
  /\ autoRecognition.isActive
  /\ autoRecognition.attemptCount = 0
  /\ autoRecognition.cooldownUntil = Null
  /\ autoRecognition.lastAttempt = now

\* ------------------------------------------------------------------ C16
\* C16 (SpecCamera): stopStream leaves streaming false and no track of any
\* stream live; and with no startStream invoked after it, the step that follows
\* a stopStream does not make streaming true.
StopStreamReleasesAll ==
  [][ /\ lastOp' = "stopStream" =>
           /\ ~isStreaming'
           /\ tracks' = {}
      /\ (lastOp = "stopStream" /\ acquiring = EmptyBag) => ~isStreaming' ]_vars

\* ------------------------------------------------------------------ C17
\* C17 (SpecCamera): when startStream fails (the support check fails, or
\* getUserMedia rejects), streaming is false afterwards and cameraError holds
\* the message of the failure.
FailedStartLeavesNotStreaming ==
  [][ /\ lastOp' = "startStreamFailed" =>
           /\ ~isStreaming'
           /\ cameraError' # NoError
      /\ ( /\ lastOp' \in {"startStream", "switchStart"}
           /\ cameraSupport # "supported" ) =>
           /\ ~isStreaming'
           /\ cameraError' = supportError(cameraSupport) ]_vars

\* ------------------------------------------------------------------ C18
\* C18 (SpecCamera): switchCamera(id) leaves id selected and, when streaming,
\* stops the stream; its delayed start asks getUserMedia for the device id.
SwitchStartsNewCamera ==
  [][ /\ lastOp' = "switchCamera" =>
           /\ selectedCamera' # selectedCamera
           /\ isStreaming =>
                /\ ~isStreaming'
                /\ \E tm \in BagToSet(cameraTimers') :
                     /\ tm.kind = "restart" /\ tm.due = ReleaseMs
                     /\ tm.id = selectedCamera'
      /\ lastOp' = "switchStart" =>
           \E tm \in BagToSet(cameraTimers) :
             /\ tm.kind = "restart"
             /\ cameraTimers' = cameraTimers (-) SetToBag({tm})
             /\ acquiring' = acquiring (+) SetToBag({tm.id}) ]_vars

\* ------------------------------------------------------------------ C19
\* The frame source has loaded its metadata (readyState above HAVE_NOTHING).
MetadataLoaded(v) == v.readyState > 0

\* C19 (SpecCapture): captureImage returns an image or none; an image only
\* when streaming is true, the frame source has loaded metadata and its width
\* and height are not 0; and the call changes no state.
CaptureOnlyFromLiveFrame ==
  [][ lastOp' = "captureImage" =>
        /\ captured' \in {"image", "none"}
        /\ captured' = "image" =>
             /\ isStreaming
             /\ frameSource.hasVideo
             /\ MetadataLoaded(frameSource)
             /\ frameSource.videoWidth # 0
             /\ frameSource.videoHeight # 0
        /\ UNCHANGED <<isStreaming, modelsLoaded, detectedFaces, recognitionStatus,
                       doorStatus, autoRecognition, autoRecognitionIntervalRef,
                       pending, timers, cameras, selectedCamera, cameraError,
                       autoStartCamera, streamRef, tracks, video, acquiring,
                       cameraTimers, cameraSupport, frameSource>> ]_vars

\* captureImage returned an image of a playing, loaded video while streaming.
CapturedImage ==
  /\ lastOp = "captureImage"
  /\ captured = "image"
  /\ isStreaming
  /\ frameSource.videoWidth = MaxWidth /\ frameSource.videoHeight = MaxHeight

\* ------------------------------------------------------------------ C20
\* C20, recognition: after a failed or non-success recognition call a retry
\* started by the caller issues a new attempt.  A tick of an interval whose
\* closure is the current state, with nothing outstanding (no request, no
\* timer), the loop active, the camera streaming, a face detected, no
\* cooldown, attemptCount < maxAttempts and the last attempt at least
\* 2000 ms back, starts an attempt.
RetryStartsAttempt ==
  [][ ( /\ TickStep
        /\ autoRecognitionIntervalRef.closure
             = Closure(isStreaming, detectedFaces, recognitionStatus, autoRecognition)
        /\ pending = {}
        /\ timers = EmptyBag
        /\ autoRecognition.isActive
        /\ isStreaming
        /\ detectedFaces > 0
        /\ ~InCooldown(autoRecognition)
        /\ autoRecognition.attemptCount < autoRecognition.maxAttempts
        /\ now - autoRecognition.lastAttempt >= MinIntervalMs )
      => lastOp' \in {"request", "no_image"} ]_vars

\* ------------------------------------------------------------------ C21
\* C21 (SpecDetection): there are never two detection passes in flight; a tick
\* of the 300 ms interval that comes while a pass is running starts no pass.
SingleDetectionPass == BagCardinality(detecting) <= 1

\* ------------------------------------------------------------------ C22
\* C22 (SpecEnrollment): while a capture of variations is active, the number
\* of captured variations equals the current variation index, in every
\* reachable state: before and after every capture, successful, failed or
\* overlapping another.
CapturedCountIsIndex ==
  isCapturingVariations => Len(capturedVariations) = currentVariationIndex

\* An active capture in which a capture overlapped another and succeeded.
OverlappingCaptureSucceeded ==
  /\ isCapturingVariations
  /\ overlaps > 0
  /\ lastOp = "captureSuccess"
  /\ currentVariationIndex >= 2

\* ------------------------------------------------------------------ C23
\* C23 (SpecEnrollment): the current variation index never exceeds the number
\* of entries of VARIATION_TYPES (7), for every interleaving of captures and
\* answers of the enrollment service.
IndexWithinCatalog == currentVariationIndex <= Len(VARIATION_TYPES)

\* ------------------------------------------------------------------ C24
\* C24 (SpecEnrollment): in a capture of variations started by
\* startMultiVariationCapture, after k successful captures the captured
\* variations are the first k entries of VARIATION_TYPES in catalog order,
\* none duplicated or skipped (with k = 7, the whole catalog in order).
CapturedIsCatalogPrefix ==
  isCapturingVariations =>
    /\ Len(capturedVariations) <= Len(VARIATION_TYPES)
    /\ capturedVariations = SubSeq(VARIATION_TYPES, 1, Len(capturedVariations))

\* ------------------------------------------------------------------ C25
\* C25 (SpecEnrollment): a capture that succeeds has submitted exactly the
\* entry VARIATION_TYPES[currentVariationIndex] for the person of the capture
\* of variations (both as they are at the click); its success appends the type
\* that was submitted to capturedVariations and adds exactly one to the index.
CaptureSubmitsCurrentEntry ==
  [][ /\ lastOp' = "captureSubmit" =>
           /\ currentVariationIndex < Len(VARIATION_TYPES)
           /\ uploads' = uploads (+) SetToBag(
                {[name |-> personNameForVariations,
                  type |-> VARIATION_TYPES[currentVariationIndex + 1]]})
      /\ lastOp' = "captureSuccess" =>
           \E u \in BagToSet(uploads) :
             /\ uploads' = uploads (-) SetToBag({u})
             /\ capturedVariations' = Append(capturedVariations, u.type)
             /\ currentVariationIndex' = currentVariationIndex + 1 ]_vars

\* The capture of the fourth entry succeeded.
FourthVariationCaptured ==
  /\ lastOp = "captureSuccess"
  /\ isCapturingVariations
  /\ personNameForVariations \in PersonNames
  /\ capturedVariations = SubSeq(VARIATION_TYPES, 1, 4)
  /\ currentVariationIndex = 4

\* ------------------------------------------------------------------ C26
\* C26 (SpecEnrollment): a capture that fails (captureImage gave no frame, or
\* addFaceVariation gave false: a non-success answer or a throw of the upload)
\* leaves the index, the captured variations, the person name and the active
\* flag as they were, so the next click targets the same entry.
FailedCaptureChangesNothing ==
  [][ /\ lastOp' \in {"captureNoFrame", "captureFailure"} =>
           /\ UNCHANGED <<currentVariationIndex, capturedVariations,
                          personNameForVariations, isCapturingVariations>>
           /\ currentVariationIndex < Len(VARIATION_TYPES) =>
                variationRequest(Session)' = variationRequest(Session)
      /\ lastOp' = "captureNoFrame" => isCapturingVariations' ]_vars

\* An upload of the third entry was answered with a failure while the capture
\* of variations is active.
ThirdVariationFailed ==
  /\ lastOp = "captureFailure"
  /\ isCapturingVariations
  /\ currentVariationIndex = 2
  /\ Len(capturedVariations) = 2

\* ------------------------------------------------------------------ C27
\* C27 (SpecEnrollment): captureNextVariation submits an enrollment request
\* only if, at the click, the camera is streaming and at least one face is
\* detected.
CaptureNeedsStreamAndFace ==
  [][ lastOp' = "captureSubmit" =>
        /\ isStreaming
        /\ detectedFaces >= 1
        /\ isCapturingVariations ]_vars

\* A request of the capture of variations was submitted with the stream on
\* and a face detected.
VariationSubmitted ==
  /\ lastOp = "captureSubmit"
  /\ uploads # EmptyBag
  /\ isStreaming
  /\ detectedFaces >= 1

\* ------------------------------------------------------------------ C28
\* C28 (SpecEnrollment): a capture of variations is completed from the index
\* that equals the catalog length and can be skipped at any index; completing
\* or skipping leaves no active capture, and a capture started afterwards works
\* normally: while it is active only its start and a successful capture change
\* its person name, index and captured variations.
SessionEndsAndRestartsCleanly ==
  [][ /\ lastOp' = "complete" => currentVariationIndex >= Len(VARIATION_TYPES)
      /\ lastOp' \in {"complete", "skip"} =>
           /\ isCapturingVariations
           /\ ~isCapturingVariations'
      /\ ( /\ isCapturingVariations
           /\ isCapturingVariations'
           /\ lastOp' \notin {"startSession", "captureSuccess"} )
         => UNCHANGED <<personNameForVariations, currentVariationIndex,
                        capturedVariations>> ]_vars

\* ------------------------------------------------------------------ C29
\* C29 (SpecStartSession): startMultiVariationCapture(name) always gives an
\* active capture of variations with person name name, index 0 and no captured
\* variation, whatever an earlier capture left behind.
StartYieldsFreshSession ==
  [][ lastOp' = "startSession" =>
        \E name \in BagToSet(adding) :
          /\ adding' = adding (-) SetToBag({name})
          /\ personNameForVariations' = name
          /\ isCapturingVariations'
          /\ currentVariationIndex' = 0
          /\ capturedVariations' = << >> ]_vars

\* A capture was started for "Binh".
StartedForBinh ==
  /\ lastOp = "startSession"
  /\ isCapturingVariations
  /\ personNameForVariations = "Binh"
  /\ currentVariationIndex = 0
  /\ capturedVariations = << >>

\* ------------------------------------------------------------------ C30
\* C30: the door status goes from locked to unlocked only in the handling of
\* a recognition response with success = true and recognized = true; no
\* failure of the transport, non-success response, recognized = false
\* response, timer or camera operation unlocks the door.
UnlockOnlyOnRecognized ==
  [][ (doorStatus = "locked" /\ doorStatus' = "unlocked")
        => /\ lastOp' = "recognized"
           /\ \E t \in pending : pending' = pending \ {t} ]_vars

\* A recognized response has just unlocked the door.
DoorUnlockedByRecognition ==
  /\ lastOp = "recognized"
  /\ doorStatus = "unlocked"
  /\ recognitionStatus = "recognized"

\* ------------------------------------------------------------------ C31
\* C31: the tick that issues a recognition request counts it at once:
\* attemptCount grows by one and lastAttempt becomes the time of the request
\* before the response is awaited, so that while a single request is
\* outstanding lastAttempt is its start time.
AttemptCountedAtRequest ==
  [][ /\ IssueStep =>
           /\ autoRecognition'.attemptCount = autoRecognition.attemptCount + 1
           /\ autoRecognition'.lastAttempt = now
      /\ \A t \in pending' :
           pending' = {t} => autoRecognition'.lastAttempt = t ]_vars

\* ------------------------------------------------------------------ C32
\* C32: when the handling of a recognized = false response brings attemptCount
\* to maxAttempts, that handling arms the cooldown (cooldownUntil = now + 30000),
\* resets attemptCount to 0 and leaves isActive as it was.
LastUnknownArmsCooldown ==
  [][ ( /\ lastOp' = "unknown"
        /\ autoRecognition.attemptCount + 1 = autoRecognition.maxAttempts )
      => /\ autoRecognition'.cooldownUntil = now + CooldownMs
         /\ autoRecognition'.attemptCount = 0
         /\ autoRecognition'.isActive = autoRecognition.isActive ]_vars

\* ------------------------------------------------------------------ C33
\* C33: cooldownUntil is set to a deadline only in a step in which
\* attemptCount >= maxAttempts holds; no other operation arms a cooldown, and
\* startAutoRecognition and stopAutoRecognition only clear it.
CooldownArmedOnlyAtMaxAttempts ==
  [][ /\ ArmsCooldown =>
           autoRecognition.attemptCount >= autoRecognition.maxAttempts
      /\ ( /\ autoRecognition'.cooldownUntil # Null
           /\ autoRecognition'.cooldownUntil # autoRecognition.cooldownUntil
           /\ lastOp' # "advance" )
         => ArmsCooldown
      /\ lastOp' \in {"startAutoRecognition", "stopAutoRecognition"} =>
           autoRecognition'.cooldownUntil = Null ]_vars

\* ------------------------------------------------------------------ C37
\* C37: 0 <= attemptCount <= maxAttempts in every reachable state of the
\* controller, also when responses arrive late, after a stop, or after a
\* cooldown was armed.
AttemptCountWithinMax ==
  /\ 0 <= autoRecognition.attemptCount
  /\ autoRecognition.attemptCount <= autoRecognition.maxAttempts

\* ------------------------------------------------------------------ C38
\* The loop is active, the camera streams, a face is detected and no cooldown
\* is running.
FaceWatched ==
  /\ autoRecognition.isActive
  /\ isStreaming
  /\ detectedFaces >= 1
  /\ ~InCooldown(autoRecognition)

\* C38 (SpecUnknownFair): if from some point on the loop is active, the camera
\* streams, no cooldown runs and a face is detected, a recognition attempt
\* eventually starts (a tick passes every guard and goes on to capture a
\* frame), also when the face appeared only after startAutoRecognition() was
\* called.
DetectedFaceIsAttempted ==
  []([]FaceWatched => <>(lastOp \in {"request", "no_image"}))

\* ------------------------------------------------------------------ C34
\* C34 (SpecDetection): a detection interval is live exactly while the camera
\* streams and the models are loaded (it is set when both have become true
\* and cleared when either has become false), none is live after the page
\* was unmounted, and never are two detection intervals live.
DetectionTimerWhileStreaming ==
  /\ Cardinality(detectionTimers) <= 1
  /\ Mounted => ((detectionTimers # {}) <=> (isStreaming /\ modelsLoaded))
  /\ Mounted => (detectionTimers # {} => LiveIds(detectionTimers) = {detectionIntervalRef})
  /\ ~Mounted => detectionTimers = {}

\* The stream was started again after a stop: the interval is live again.
DetectionTimerSetAgain ==
  /\ lastOp = "startStream"
  /\ detecting # EmptyBag
  /\ Cardinality(detectionTimers) = 1

\* ------------------------------------------------------------------ C35
\* C35 (SpecDetection): a detection pass that fails leaves no detected face
\* (the faces of an earlier pass are not kept), and the interval goes on
\* ticking.
FailedPassLeavesNoFaces ==
  [][ lastOp' = "detectError" =>
        /\ detectedFaces' = 0
        /\ detectionTimers' = detectionTimers ]_vars

StopRestartsUnderAutoStart ==
  [][ /\ (isStreaming /\ ~isStreaming' /\ autoStartCamera /\ modelsLoaded
            /\ cameras # {}) =>
           acquiring' = acquiring (+) SetToBag({selectedCamera'})
      /\ (~autoStartCamera' /\ BagCardinality(acquiring') > BagCardinality(acquiring)) =>
           lastOp' \in {"startStream", "switchStart"} ]_vars

\* The stop button was pressed with the auto start on, and a new getUserMedia
\* call is in progress for the selected camera.
StoppedAndStartedAgain ==
  /\ lastOp = "stopStream"
  /\ autoStartCamera /\ modelsLoaded /\ cameras # {}
  /\ ~isStreaming
  /\ BagIn(selectedCamera, acquiring)

\* ------------------------------------------------------------------ C40
\* C40 (SpecControllerFair): whenever the relay is on the door is closed
\* again (relay off) later, in every run in which loop() keeps being called,
\* also when the WiFi connection is lost while the door is open.
OpenedDoorIsClosedAgain ==
  (RELAY_PIN = "HIGH") ~> (RELAY_PIN = "LOW")
====
